---------------------------- MODULE Spec2Model ----------------------------
(***************************************************************************)
(* A model of RustGrapher (src/src/main.rs): the surface mesh, the height  *)
(* colour map, the projection, and the per-frame handler of the            *)
(* application.                                                            *)
(*                                                                         *)
(* Numbers.  The f32 and f64 values of the program are modelled as exact   *)
(* rationals [n, d] in lowest terms: floating-point rounding is not        *)
(* modelled.  f64::MAX and f64::MIN, which only start the running          *)
(* extrema, are the two values with d = 0.                                 *)
(*                                                                         *)
(* Expressions.  meval is a library; a parsed expression is modelled by    *)
(* its text, and its evaluation by exact rational arithmetic over a        *)
(* bounded set of texts.  sin and cos are evaluated by their Taylor        *)
(* polynomials of degree at most 2 so that every sample stays rational.    *)
(*                                                                         *)
(* Locals.  A local of the code that is read more than once is bound as    *)
(* the parameter of a local operator, so that it is computed once.         *)
(***************************************************************************)
EXTENDS Integers, Sequences, FiniteSets, TLC

VARIABLES
    expression,       \* RustGrapherApp.expression: the text of the input box
    expression_obj,   \* RustGrapherApp.expression_obj: Option<Expr>
    error_message,    \* RustGrapherApp.error_message: Option<String>
    rotation_x,       \* RustGrapherApp.rotation_x (degrees)
    rotation_y,       \* RustGrapherApp.rotation_y (degrees)
    rotation_z,       \* RustGrapherApp.rotation_z (degrees)
    zoom,             \* RustGrapherApp.zoom
    grid_resolution,  \* RustGrapherApp.grid_resolution
    range,            \* RustGrapherApp.range
    surface,          \* RustGrapherApp.surface: [vertices, range, resolution]
    auto_rotate,      \* RustGrapherApp.auto_rotate
    expr_fn,          \* the expression captured by the evaluator of the last rebuild
    min_z,            \* local min_z of the last generate_from_expression
    max_z,            \* local max_z of the last generate_from_expression
    y_origin,         \* history: rotation_y when it was last set (slider, construction)
    y_steps,          \* history: auto-rotate steps taken since y_origin
    height,           \* argument of a call of color_from_height
    color,            \* result of that call: Option<Color32>
    projected,        \* results of project_points and get_wireframe_lines
    pc                \* "app": the application runs; otherwise the position of
                      \* a direct use of Surface or of color_from_height

vars == <<expression, expression_obj, error_message, rotation_x, rotation_y,
          rotation_z, zoom, grid_resolution, range, surface, auto_rotate,
          expr_fn, min_z, max_z, y_origin, y_steps, height, color, projected, pc>>

-----------------------------------------------------------------------------
(* Bounds of the model *)

\* resolutions the slider offers: ResolutionMin .. MaxResolution (for 5..=50)
MaxResolution == 6

\* resolutions Surface::new is given on its own: 1 .. MaxMeshResolution
MaxMeshResolution == 3

\* ranges the slider offers: 1/2, 2/2, .. MaxRangeHalves/2 (for 0.5..=10.0)
MaxRangeHalves == 2

\* heights color_from_height is given: k / HeightDen for k in -HeightDen .. 2*HeightDen
HeightDen == 40

-----------------------------------------------------------------------------
(* Rational arithmetic standing for f32/f64 *)

RECURSIVE GCD(_, _)
GCD(a, b) ==
    IF b = 0 THEN a ELSE GCD(b, a % b)

Abs(a) ==
    IF a < 0 THEN -a ELSE a

Rat(n, d) ==
    LET g == GCD(Abs(n), Abs(d))
        s == IF d < 0 THEN -1 ELSE 1
    IN  [n |-> s * (n \div g), d |-> s * (d \div g)]

Int2Rat(k) ==
    [n |-> k, d |-> 1]

LCM(a, b) ==
    (a \div GCD(a, b)) * b

Add(a, b) ==
    IF a.d = b.d
    THEN Rat(a.n + b.n, a.d)
    ELSE LET l == LCM(a.d, b.d)
         IN  Rat(a.n * (l \div a.d) + b.n * (l \div b.d), l)

Neg(a) ==
    [n |-> -a.n, d |-> a.d]

Sub(a, b) ==
    Add(a, Neg(b))

\* a and b in lowest terms: so is the product after the cross cancellation
Mul(a, b) ==
    LET g1 == GCD(Abs(a.n), b.d)
        g2 == GCD(Abs(b.n), a.d)
    IN  [n |-> (a.n \div g1) * (b.n \div g2), d |-> (a.d \div g2) * (b.d \div g1)]

\* 1 / b, b not zero
Inv(b) ==
    IF b.n < 0 THEN [n |-> -b.d, d |-> -b.n] ELSE [n |-> b.d, d |-> b.n]

\* b not zero
Div(a, b) ==
    Mul(a, Inv(b))

\* a < b, on finite values
Lt(a, b) ==
    IF a.d = b.d
    THEN a.n < b.n
    ELSE LET l == LCM(a.d, b.d)
         IN  a.n * (l \div a.d) < b.n * (l \div b.d)

\* truncation toward zero
Trunc(a) ==
    IF a.n >= 0 THEN a.n \div a.d ELSE -((-a.n) \div a.d)

\* Rust's `a % b` on floats, b > 0: the remainder of the truncated division
Rem(a, b) ==
    Sub(a, Mul(b, Int2Rat(Trunc(Div(a, b)))))

\* Rust's `as u8` on a float: truncates, and saturates at 0 and 255
AsU8(a) ==
    IF a.n < 0 THEN 0 ELSE IF Trunc(a) > 255 THEN 255 ELSE Trunc(a)

f64_MAX == [n |-> 1, d |-> 0]

f64_MIN == [n |-> -1, d |-> 0]

\* a > b where either may be f64::MAX or f64::MIN
f64_gt(a, b) ==
    IF a.d = 0 /\ b.d = 0 THEN a.n > b.n
    ELSE IF a.d = 0 THEN a.n > 0
    ELSE IF b.d = 0 THEN b.n < 0
    ELSE Lt(b, a)

f64_min(a, b) ==
    IF f64_gt(a, b) THEN b ELSE a

f64_max(a, b) ==
    IF f64_gt(b, a) THEN b ELSE a

None == [some |-> FALSE]

Some(v) == [some |-> TRUE, val |-> v]

-----------------------------------------------------------------------------
(* color_from_height *)

BLACK == [r |-> 0, g |-> 0, b |-> 0]

WHITE == [r |-> 255, g |-> 255, b |-> 255]

from_rgb(r, g, b) == [r |-> r, g |-> g, b |-> b]

\* f64::round on a value >= 0, then `as u8`
RoundU8(a) ==
    AsU8(Int2Rat(Trunc(Add(a, Rat(1, 2)))))

\* color_from_height with the channels rounded instead of truncated
color_from_height_Rounding(h) ==
    IF Lt(h, Int2Rat(0)) \/ Lt(Int2Rat(1), h)
    THEN BLACK
    ELSE IF Lt(h, Rat(1, 2))
         THEN LET t == Mul(h, Int2Rat(2))
                  r == RoundU8(Mul(t, Int2Rat(255)))
                  b == RoundU8(Mul(Sub(Int2Rat(1), t), Int2Rat(255)))
              IN  from_rgb(r, r, b)
         ELSE LET t == Mul(Sub(h, Rat(1, 2)), Int2Rat(2))
                  g == RoundU8(Mul(Sub(Int2Rat(1), t), Int2Rat(255)))
              IN  from_rgb(255, g, 0)

color_from_height(h) ==
    IF Lt(h, Int2Rat(0)) \/ Lt(Int2Rat(1), h)
    THEN BLACK
    ELSE IF Lt(h, Rat(1, 2))
         THEN LET t == Mul(h, Int2Rat(2))
                  r == AsU8(Mul(t, Int2Rat(255)))
                  g == AsU8(Mul(t, Int2Rat(255)))
                  b == AsU8(Mul(Sub(Int2Rat(1), t), Int2Rat(255)))
              IN  from_rgb(r, g, b)
         ELSE LET t == Mul(Sub(h, Rat(1, 2)), Int2Rat(2))
                  g == AsU8(Mul(Sub(Int2Rat(1), t), Int2Rat(255)))
              IN  from_rgb(255, g, 0)

-----------------------------------------------------------------------------
(* Expressions: str::parse::<Expr> and Expr::eval_with_context *)

\* the texts that parse, of those the model knows
ValidTexts ==
    {"sin(x) * cos(y)", "x^2 + y^2", "sin(x*y)", "5", "1/(x*x)", "1/(x-y)", "0/0"}

\* the texts the model types into the input box
Texts ==
    {"sin(x) * cos(y)", "1/(x*x)", "x +* y", ""}

\* self.expression.parse::<Expr>(): Ok(expr) or Err(err)
parse(text) ==
    IF text \in ValidTexts
    THEN [ok |-> TRUE, expr |-> text]
    ELSE [ok |-> FALSE, err |-> text]

\* a / b in f64: a non-finite quotient (divisor 0) is reported as None
Quot(a, b) ==
    IF b.n = 0 THEN None ELSE Some(Div(a, b))

\* expr.eval_with_context(x, y), filtered by `Ok(z) if z.is_finite()`:
\* Some(z) for a finite value, None otherwise
eval_with_context(expr, x, y) ==
    CASE expr = "sin(x) * cos(y)" ->
            Some(Mul(x, Sub(Int2Rat(1), Mul(Mul(y, y), Rat(1, 2)))))
      [] expr = "x^2 + y^2" -> Some(Add(Mul(x, x), Mul(y, y)))
      [] expr = "sin(x*y)"  -> Some(Mul(x, y))
      [] expr = "5"         -> Some(Int2Rat(5))
      [] expr = "1/(x*x)"   -> Quot(Int2Rat(1), Mul(x, x))
      [] expr = "1/(x-y)"   -> Quot(Int2Rat(1), Sub(x, y))
      [] expr = "0/0"       -> Quot(Int2Rat(0), Int2Rat(0))

-----------------------------------------------------------------------------
(* Surface *)

Vec3(x, y, z) == [x |-> x, y |-> y, z |-> z]

Vec3_ZERO == Vec3(Int2Rat(0), Int2Rat(0), Int2Rat(0))

Vertex3D(position, c) == [position |-> position, color |-> c]

\* Surface::new: (resolution + 1) rows of (resolution + 1) white vertices at the
\* origin.  vertices[i + 1][j + 1] is the code's vertices[i][j].
Surface_new(resolution, rng) ==
    [vertices   |-> [i \in 1..(resolution + 1) |->
                        [j \in 1..(resolution + 1) |-> Vertex3D(Vec3_ZERO, WHITE)]],
     range      |-> rng,
     resolution |-> resolution]

\* Step with the span of the grid taken as `range` instead of 2 * range
Step_HalfSpan(s) ==
    Div(s.range, Int2Rat(s.resolution))

\* `step` of generate_from_expression
Step(s) ==
    Div(Mul(Int2Rat(2), s.range), Int2Rat(s.resolution))

\* the x (from j) or the y (from i) of grid index k: -self.range + k as f64 * step
Coord(s, step, k) ==
    Add(Neg(s.range), Mul(Int2Rat(k), step))

\* FirstPassPosition without the else branch: a failed sample leaves the vertex
\* as Surface::new made it
FirstPassPosition_NoFallback(s, expr, step, i, j) ==
    LET at(x, y) ==
            LET put(r) == IF r.some THEN Vec3(x, y, r.val) ELSE Vec3_ZERO
            IN  put(eval_with_context(expr, x, y))
    IN  at(Coord(s, step, j), Coord(s, step, i))

\* first pass, the position given to vertices[i][j]
FirstPassPosition(s, expr, step, i, j) ==
    LET at(x, y) ==
            LET put(r) == IF r.some THEN Vec3(x, y, r.val) ELSE Vec3(x, y, Int2Rat(0))
            IN  put(eval_with_context(expr, x, y))
    IN  at(Coord(s, step, j), Coord(s, step, i))

\* first pass: min_z and max_z over the samples k = i * (resolution + 1) + j with
\* lo <= k < hi.  The code carries one pair of extrema through its two loops;
\* min and max being associative, the pair is computed here by halving the
\* run of samples, which keeps the evaluation shallow.
RECURSIVE FirstPassExtrema(_, _, _, _, _)
FirstPassExtrema(s, expr, step, lo, hi) ==
    IF hi - lo = 1
    THEN LET i == lo \div (s.resolution + 1)
             j == lo % (s.resolution + 1)
             one(r) ==
                 IF r.some
                 THEN [min_z |-> f64_min(f64_MAX, r.val), max_z |-> f64_max(f64_MIN, r.val)]
                 ELSE [min_z |-> f64_MAX, max_z |-> f64_MIN]
         IN  one(eval_with_context(expr, Coord(s, step, j), Coord(s, step, i)))
    ELSE LET mid == (lo + hi) \div 2
             both(left, right) ==
                 [min_z |-> f64_min(left.min_z, right.min_z),
                  max_z |-> f64_max(left.max_z, right.max_z)]
         IN  both(FirstPassExtrema(s, expr, step, lo, mid),
                  FirstPassExtrema(s, expr, step, mid, hi))

\* SecondPassColor with a degenerate z-range mapped to height 0 instead of 0.5
SecondPassColor_FlatAsLowest(z, lo, hi) ==
    LET z_range      == IF f64_gt(hi, lo) THEN Sub(hi, lo) ELSE Int2Rat(1)
        normalized_z == IF f64_gt(hi, lo) THEN Div(Sub(z, lo), z_range) ELSE Int2Rat(0)
    IN  color_from_height(normalized_z)

\* second pass, the colour given to a vertex of height z
SecondPassColor(z, lo, hi) ==
    LET z_range      == IF f64_gt(hi, lo) THEN Sub(hi, lo) ELSE Int2Rat(1)
        normalized_z == IF f64_gt(hi, lo) THEN Div(Sub(z, lo), z_range) ELSE Rat(1, 2)
    IN  color_from_height(normalized_z)

\* Surface::generate_from_expression with the evaluator of update_surface_data:
\* the surface it leaves, and its locals min_z and max_z
generate_from_expression(s, expr) ==
    LET n == s.resolution + 1
        second_pass(step, ext) ==
            LET vertex(position) ==
                    Vertex3D(position, SecondPassColor(position.z, ext.min_z, ext.max_z))
            IN  [surface |-> [s EXCEPT !.vertices =
                                [i \in 1..n |-> [j \in 1..n |->
                                    vertex(FirstPassPosition(s, expr, step, i - 1, j - 1))]]],
                 min_z   |-> ext.min_z,
                 max_z   |-> ext.max_z]
        first_pass(step) ==
            second_pass(step, FirstPassExtrema(s, expr, step, 0, n * n))
    IN  first_pass(Step(s))

-----------------------------------------------------------------------------
(* Projection *)

\* sin of an angle of 0..180 degrees.  f32::sin is library code: it is modelled by
\* Bhaskara's rational approximation, exact at 0, 30, 90, 150 and 180 degrees.
SinHalfTurn(deg) ==
    LET ratio(p) == Div(Mul(Int2Rat(4), p), Sub(Int2Rat(40500), p))
    IN  ratio(Mul(deg, Sub(Int2Rat(180), deg)))

\* sin(deg.to_radians()) for 0 <= deg <= 360
Sin(deg) ==
    IF Lt(Int2Rat(180), deg)
    THEN Neg(SinHalfTurn(Sub(deg, Int2Rat(180))))
    ELSE SinHalfTurn(deg)

\* cos(deg.to_radians()) for 0 <= deg <= 360
Cos(deg) ==
    Sin(Rem(Add(deg, Int2Rat(90)), Int2Rat(360)))

Zero == Int2Rat(0)

One == Int2Rat(1)

\* Mat3::from_rotation_x, _y, _z: rows of the matrix
from_rotation_x(deg) ==
    << <<One, Zero, Zero>>,
       <<Zero, Cos(deg), Neg(Sin(deg))>>,
       <<Zero, Sin(deg), Cos(deg)>> >>

from_rotation_y(deg) ==
    << <<Cos(deg), Zero, Sin(deg)>>,
       <<Zero, One, Zero>>,
       <<Neg(Sin(deg)), Zero, Cos(deg)>> >>

from_rotation_z(deg) ==
    << <<Cos(deg), Neg(Sin(deg)), Zero>>,
       <<Sin(deg), Cos(deg), Zero>>,
       <<Zero, Zero, One>> >>

\* Mat3 * Mat3
MatMul(a, b) ==
    [i \in 1..3 |-> [j \in 1..3 |->
        Add(Add(Mul(a[i][1], b[1][j]), Mul(a[i][2], b[2][j])), Mul(a[i][3], b[3][j]))]]

\* Mat3 * Vec3
MatVec(m, v) ==
    LET row(i) == Add(Add(Mul(m[i][1], v.x), Mul(m[i][2], v.y)), Mul(m[i][3], v.z))
    IN  Vec3(row(1), row(2), row(3))

\* Vec3 * f32
Scale(v, k) ==
    Vec3(Mul(v.x, k), Mul(v.y, k), Mul(v.z, k))

rotation_matrix(x_deg, y_deg, z_deg) ==
    MatMul(MatMul(from_rotation_x(x_deg), from_rotation_y(y_deg)), from_rotation_z(z_deg))

\* rotation_matrix * position * zoom, projected to [rotated.x, rotated.z]
Project(position, m, z) ==
    LET rotated == Scale(MatVec(m, position), z)
    IN  <<rotated.x, rotated.z>>

\* the concatenation of a sequence of sequences
RECURSIVE Flatten(_)
Flatten(rows) ==
    IF rows = <<>> THEN <<>> ELSE Head(rows) \o Flatten(Tail(rows))

\* Surface::project_points: every vertex of every row, in the order of
\* `for row in &self.vertices { for vertex in row`
project_points(s, m, z) ==
    LET all == Flatten(s.vertices)
    IN  [positions |-> [k \in 1..Len(all) |-> Project(all[k].position, m, z)],
         colors    |-> [k \in 1..Len(all) |-> all[k].color]]

\* get_wireframe_lines whose second loop indexes vertices[j][i]: the rows twice
get_wireframe_lines_RowsTwice(s, m, z) ==
    LET n == s.resolution + 1
    IN  [i \in 1..n |-> [j \in 1..n |-> Project(s.vertices[i][j].position, m, z)]]
        \o [j \in 1..n |-> [i \in 1..n |-> Project(s.vertices[j][i].position, m, z)]]

\* Surface::get_wireframe_lines: a line per i in 0..=resolution, then a line per
\* j in 0..=resolution
get_wireframe_lines(s, m, z) ==
    LET n == s.resolution + 1
    IN  [i \in 1..n |-> [j \in 1..n |-> Project(s.vertices[i][j].position, m, z)]]
        \o [j \in 1..n |-> [i \in 1..n |-> Project(s.vertices[i][j].position, m, z)]]

-----------------------------------------------------------------------------
(* RustGrapherApp.  The handlers are operators on a record of the fields;    *)
(* an action is one call of update (one frame) with one UI event.            *)

\* the fields now
Self ==
    [expression |-> expression, expression_obj |-> expression_obj,
     error_message |-> error_message, rotation_x |-> rotation_x,
     rotation_y |-> rotation_y, rotation_z |-> rotation_z, zoom |-> zoom,
     grid_resolution |-> grid_resolution, range |-> range, surface |-> surface,
     auto_rotate |-> auto_rotate, expr_fn |-> expr_fn, min_z |-> min_z,
     max_z |-> max_z, y_origin |-> y_origin, y_steps |-> y_steps]

\* the fields after the frame
Commit(a) ==
    /\ expression' = a.expression
    /\ expression_obj' = a.expression_obj
    /\ error_message' = a.error_message
    /\ rotation_x' = a.rotation_x
    /\ rotation_y' = a.rotation_y
    /\ rotation_z' = a.rotation_z
    /\ zoom' = a.zoom
    /\ grid_resolution' = a.grid_resolution
    /\ range' = a.range
    /\ surface' = a.surface
    /\ auto_rotate' = a.auto_rotate
    /\ expr_fn' = a.expr_fn
    /\ min_z' = a.min_z
    /\ max_z' = a.max_z
    /\ y_origin' = a.y_origin
    /\ y_steps' = a.y_steps
    /\ UNCHANGED <<height, color, projected, pc>>

\* RustGrapherApp::update_surface_data
update_surface_data(a, expr) ==
    LET put(g) ==
            [a EXCEPT !.surface = g.surface, !.min_z = g.min_z, !.max_z = g.max_z,
                      !.expr_fn = expr]
    IN  put(generate_from_expression(Surface_new(a.grid_resolution, a.range), expr))

\* compile_expression whose Err branch keeps the expression compiled before
compile_expression_KeepsExpression(a) ==
    LET p == parse(a.expression)
    IN  IF p.ok
        THEN update_surface_data(
                 [a EXCEPT !.expression_obj = Some(p.expr), !.error_message = None],
                 p.expr)
        ELSE [a EXCEPT !.error_message = Some(<<"Error parsing expression: ", p.err>>)]

\* RustGrapherApp::compile_expression
compile_expression(a) ==
    LET p == parse(a.expression)
    IN  IF p.ok
        THEN update_surface_data(
                 [a EXCEPT !.expression_obj = Some(p.expr), !.error_message = None],
                 p.expr)
        ELSE [a EXCEPT !.error_message = Some(<<"Error parsing expression: ", p.err>>),
                       !.expression_obj = None]

\* the number of auto-rotate frames after which the angle has turned 360 degrees
Period == 2 * 360

\* auto_rotate_step without the `% 360.0`
auto_rotate_step_NoWrap(a) ==
    IF a.auto_rotate
    THEN [a EXCEPT !.rotation_y = Add(@, Rat(1, 2)),
                   !.y_origin = IF a.y_steps = Period THEN a.rotation_y ELSE @,
                   !.y_steps = IF @ = Period THEN 1 ELSE @ + 1]
    ELSE a

\* update, `if self.auto_rotate`; y_origin and y_steps record the run of steps
auto_rotate_step(a) ==
    IF a.auto_rotate
    THEN [a EXCEPT !.rotation_y = Rem(Add(@, Rat(1, 2)), Int2Rat(360)),
                   !.y_origin = IF a.y_steps = Period THEN a.rotation_y ELSE @,
                   !.y_steps = IF @ = Period THEN 1 ELSE @ + 1]
    ELSE a

\* update, central panel: the lazy compile
central_panel(a) ==
    IF ~a.expression_obj.some /\ ~a.error_message.some
    THEN compile_expression(a)
    ELSE a

\* update, the resolution slider changed
resolution_changed(a, r) ==
    LET b == [a EXCEPT !.grid_resolution = r]
    IN  IF b.expression_obj.some
        THEN update_surface_data(b, b.expression_obj.val)
        ELSE b

\* update, the range slider changed
range_changed(a, r) ==
    LET b == [a EXCEPT !.range = r]
    IN  IF b.expression_obj.some
        THEN update_surface_data(b, b.expression_obj.val)
        ELSE b

\* update, an example was selected
example_selected(a, e) ==
    compile_expression([a EXCEPT !.expression = e])

\* update, the rotation_y slider changed
rotation_y_changed(a, v) ==
    [a EXCEPT !.rotation_y = v, !.y_origin = v, !.y_steps = 0]

\* self.example_expressions, without the examples that use sqrt and exp
example_expressions ==
    {"sin(x) * cos(y)", "x^2 + y^2"}

ResolutionMin == 5

\* values of the resolution slider
Resolutions ==
    ResolutionMin..MaxResolution

\* values of the range slider
Ranges ==
    {Rat(k, 2) : k \in 1..MaxRangeHalves}

\* values of the three rotation sliders, in 0.0..=360.0
RotationXValues ==
    {Int2Rat(0)}

RotationYValues ==
    {Int2Rat(0), Rat(719, 2), Int2Rat(360)}

RotationZValues ==
    {Int2Rat(360)}

\* values of the zoom slider, in 0.1..=5.0
ZoomValues ==
    {Rat(1, 10)}

\* one frame with no UI event
FrameIdle ==
    /\ pc = "app"
    /\ Commit(central_panel(auto_rotate_step(Self)))

\* one frame in which the text of the input box is edited
FrameTextEdited ==
    /\ pc = "app"
    /\ \E t \in Texts \ {expression} :
          Commit(central_panel([auto_rotate_step(Self) EXCEPT !.expression = t]))

\* one frame in which the input box loses focus by Enter, or Graph is clicked:
\* both call self.compile_expression()
FrameGraphRequested ==
    /\ pc = "app"
    /\ Commit(central_panel(compile_expression(auto_rotate_step(Self))))

\* one frame in which an example is selected
FrameExampleSelected ==
    /\ pc = "app"
    /\ \E e \in example_expressions :
          Commit(central_panel(example_selected(auto_rotate_step(Self), e)))

\* one frame in which Auto Rotate is toggled
FrameAutoRotateToggled ==
    /\ pc = "app"
    /\ Commit(central_panel([auto_rotate_step(Self) EXCEPT !.auto_rotate = ~@]))

FrameRotationXChanged ==
    /\ pc = "app"
    /\ \E v \in RotationXValues \ {rotation_x} :
          Commit(central_panel([auto_rotate_step(Self) EXCEPT !.rotation_x = v]))

FrameRotationYChanged ==
    /\ pc = "app"
    /\ \E v \in RotationYValues :
          LET a == auto_rotate_step(Self)
          IN  /\ v # a.rotation_y
              /\ Commit(central_panel(rotation_y_changed(a, v)))

FrameRotationZChanged ==
    /\ pc = "app"
    /\ \E v \in RotationZValues \ {rotation_z} :
          Commit(central_panel([auto_rotate_step(Self) EXCEPT !.rotation_z = v]))

FrameZoomChanged ==
    /\ pc = "app"
    /\ \E v \in ZoomValues \ {zoom} :
          Commit(central_panel([auto_rotate_step(Self) EXCEPT !.zoom = v]))

\* one frame in which the resolution slider changes
FrameResolutionChanged ==
    /\ pc = "app"
    /\ \E r \in Resolutions \ {grid_resolution} :
          Commit(central_panel(resolution_changed(auto_rotate_step(Self), r)))

\* one frame in which the range slider changes
FrameRangeChanged ==
    /\ pc = "app"
    /\ \E r \in Ranges \ {range} :
          Commit(central_panel(range_changed(auto_rotate_step(Self), r)))

\* RustGrapherApp::new
new ==
    compile_expression(
        [expression |-> "sin(x) * cos(y)", expression_obj |-> None,
         error_message |-> None, rotation_x |-> Int2Rat(30),
         rotation_y |-> Int2Rat(30), rotation_z |-> Int2Rat(0), zoom |-> Rat(8, 10),
         grid_resolution |-> 20, range |-> Int2Rat(3),
         surface |-> Surface_new(20, Int2Rat(3)), auto_rotate |-> FALSE,
         expr_fn |-> "", min_z |-> f64_MAX, max_z |-> f64_MIN,
         y_origin |-> Int2Rat(30), y_steps |-> 0])

NoProjection == [positions |-> <<>>, colors |-> <<>>, lines |-> <<>>]

\* the fields of `a`, and no call of Surface or color_from_height of its own
Fields(a) ==
    /\ expression = a.expression
    /\ expression_obj = a.expression_obj
    /\ error_message = a.error_message
    /\ rotation_x = a.rotation_x
    /\ rotation_y = a.rotation_y
    /\ rotation_z = a.rotation_z
    /\ zoom = a.zoom
    /\ grid_resolution = a.grid_resolution
    /\ range = a.range
    /\ surface = a.surface
    /\ auto_rotate = a.auto_rotate
    /\ expr_fn = a.expr_fn
    /\ min_z = a.min_z
    /\ max_z = a.max_z
    /\ y_origin = a.y_origin
    /\ y_steps = a.y_steps

Init ==
    /\ Fields(new)
    /\ height = Zero
    /\ color = None
    /\ projected = NoProjection
    /\ pc = "app"

\* the frames that change the expression or the grid
NextMesh ==
    \/ FrameIdle
    \/ FrameTextEdited
    \/ FrameGraphRequested
    \/ FrameExampleSelected
    \/ FrameResolutionChanged
    \/ FrameRangeChanged

\* the frames that change the view
NextView ==
    \/ FrameIdle
    \/ FrameAutoRotateToggled
    \/ FrameRotationXChanged
    \/ FrameRotationYChanged
    \/ FrameRotationZChanged
    \/ FrameZoomChanged

Next ==
    NextMesh \/ NextView

Spec == Init /\ [][Next]_vars

\* the application under the expression, resolution and range events
MeshSpec == Init /\ [][NextMesh]_vars

\* the application under the view events
ViewSpec == Init /\ [][NextView]_vars

-----------------------------------------------------------------------------
(* Surface used directly: Surface::new, generate_from_expression, then       *)
(* project_points and get_wireframe_lines                                     *)

\* the resolutions, ranges, views and zooms the surface is used with
MeshResolutions ==
    1..MaxMeshResolution

MeshRanges ==
    Ranges \cup {Int2Rat(3)}

MeshRotations ==
    {<<30, 30, 0>>, <<0, 0, 0>>, <<90, 0, 270>>}

MeshZooms ==
    {Rat(8, 10), Int2Rat(5)}

SurfaceInit ==
    \E r \in MeshResolutions, g \in MeshRanges, e \in ValidTexts,
       rot \in MeshRotations, z \in MeshZooms :
        /\ Fields([new EXCEPT !.grid_resolution = r, !.range = g,
                              !.surface = Surface_new(r, g), !.expr_fn = e,
                              !.min_z = f64_MAX, !.max_z = f64_MIN,
                              !.rotation_x = Int2Rat(rot[1]),
                              !.rotation_y = Int2Rat(rot[2]),
                              !.rotation_z = Int2Rat(rot[3]), !.zoom = z])
        /\ height = Zero
        /\ color = None
        /\ projected = NoProjection
        /\ pc = "new"

\* self.surface.generate_from_expression(evaluator of expr_fn)
SurfaceGenerate ==
    /\ pc = "new"
    /\ \E g \in {generate_from_expression(surface, expr_fn)} :
           /\ surface' = g.surface
           /\ min_z' = g.min_z
           /\ max_z' = g.max_z
    /\ pc' = "generated"
    /\ UNCHANGED <<expression, expression_obj, error_message, rotation_x, rotation_y,
                   rotation_z, zoom, grid_resolution, range, auto_rotate, expr_fn,
                   y_origin, y_steps, height, color, projected>>

\* update, central panel: the projection handed to the plot
SurfaceProject ==
    /\ pc = "generated"
    /\ \E rotation \in {rotation_matrix(rotation_x, rotation_y, rotation_z)} :
           \E points \in {project_points(surface, rotation, zoom)} :
               projected' = [positions |-> points.positions, colors |-> points.colors,
                             lines |-> get_wireframe_lines(surface, rotation, zoom)]
    /\ pc' = "projected"
    /\ UNCHANGED <<expression, expression_obj, error_message, rotation_x, rotation_y,
                   rotation_z, zoom, grid_resolution, range, surface, auto_rotate,
                   expr_fn, min_z, max_z, y_origin, y_steps, height, color>>

NextSurface ==
    \/ SurfaceGenerate
    \/ SurfaceProject

SurfaceSpec == SurfaceInit /\ [][NextSurface]_vars

-----------------------------------------------------------------------------
(* color_from_height used directly *)

Heights ==
    {Rat(k, HeightDen) : k \in (-HeightDen)..(2 * HeightDen)}

ColorInit ==
    /\ Fields(new)
    /\ height \in Heights
    /\ color = None
    /\ projected = NoProjection
    /\ pc = "call"

ColorCall ==
    /\ pc = "call"
    /\ color' = Some(color_from_height(height))
    /\ pc' = "return"
    /\ UNCHANGED <<expression, expression_obj, error_message, rotation_x, rotation_y,
                   rotation_z, zoom, grid_resolution, range, surface, auto_rotate,
                   expr_fn, min_z, max_z, y_origin, y_steps, height, projected>>

ColorSpec == ColorInit /\ [][ColorCall]_vars

-----------------------------------------------------------------------------
(* Properties *)

\* a <= b, on finite values
Le(a, b) ==
    ~Lt(b, a)

\* the grid indices of the surface
Indices ==
    0..surface.resolution

\* the vertex the code calls self.vertices[i][j]
VertexAt(i, j) ==
    surface.vertices[i + 1][j + 1]

\* -range + k * (2 * range / resolution), as one fraction
GridCoord(k) ==
    Rat(surface.range.n * (2 * k - surface.resolution),
        surface.range.d * surface.resolution)

\* a surface that generate_from_expression has filled
Generated ==
    pc \in {"generated", "projected"}

\* C1: a compile of a text that does not parse leaves the compiled expression
\* and the mesh as they were (only the error message is set).
C1_FailedCompileKeepsExpressionAndMesh ==
    [][(FrameGraphRequested /\ ~parse(expression).ok)
         => (expression_obj' = expression_obj /\ surface' = surface)]_vars

\* C2: in every state of the application the mesh is the one of the current
\* settings: surface.resolution = grid_resolution, surface.range = range, and the
\* grid has grid_resolution + 1 rows of grid_resolution + 1 vertices.
C2_MeshFollowsSettings ==
    pc = "app" =>
        /\ surface.resolution = grid_resolution
        /\ surface.range = range
        /\ Len(surface.vertices) = grid_resolution + 1
        /\ \A i \in 1..Len(surface.vertices) :
              Len(surface.vertices[i]) = grid_resolution + 1

\* C3: a rebuilt mesh of resolution R >= 1 and range > 0 has R + 1 rows of R + 1
\* vertices, vertex (i, j) has y = -range + i * step and x = -range + j * step
\* with step = 2 * range / R, and the corners (0, 0) and (R, R) have
\* x = y = -range and x = y = +range.
C3_MeshGeometry ==
    Generated =>
        /\ Len(surface.vertices) = surface.resolution + 1
        /\ \A i \in Indices :
              /\ Len(surface.vertices[i + 1]) = surface.resolution + 1
              /\ \A j \in Indices :
                    /\ VertexAt(i, j).position.y = GridCoord(i)
                    /\ VertexAt(i, j).position.x = GridCoord(j)
        /\ VertexAt(0, 0).position.x = Neg(surface.range)
        /\ VertexAt(0, 0).position.y = Neg(surface.range)
        /\ VertexAt(surface.resolution, surface.resolution).position.x = surface.range
        /\ VertexAt(surface.resolution, surface.resolution).position.y = surface.range

C3_Witness ==
    /\ pc = "generated"
    /\ surface.resolution = 3
    /\ surface.range = Rat(1, 2)
    /\ VertexAt(1, 2).position.x = Rat(1, 6)
    /\ VertexAt(1, 2).position.y = Rat(-1, 6)

\* the result of the evaluator at grid point (i, j)
Sample(i, j) ==
    eval_with_context(expr_fn, GridCoord(j), GridCoord(i))

\* the z values of the grid points whose evaluation succeeded
Successes ==
    {Sample(ij[1], ij[2]).val :
        ij \in {p \in Indices \X Indices : Sample(p[1], p[2]).some}}

\* C4: in a rebuild a grid point whose evaluation fails or is not finite gets the
\* position (x, y, 0) and leaves min_z and max_z alone; every vertex is given a
\* position, a successful one (x, y, z); min_z and max_z are the least and the
\* greatest successful z (f64::MAX and f64::MIN when there is none).
C4_FailedSamplesFallBack ==
    Generated =>
        /\ \A i \in Indices, j \in Indices :
              VertexAt(i, j).position =
                  Vec3(GridCoord(j), GridCoord(i),
                       IF Sample(i, j).some THEN Sample(i, j).val ELSE Zero)
        /\ IF Successes = {}
           THEN min_z = f64_MAX /\ max_z = f64_MIN
           ELSE /\ min_z \in Successes
                /\ max_z \in Successes
                /\ \A z \in Successes : Le(min_z, z) /\ Le(z, max_z)

C4_Witness ==
    /\ pc = "generated"
    /\ surface.resolution = 2
    /\ ~Sample(1, 1).some
    /\ Sample(0, 0).some
    /\ VertexAt(1, 1).position.z = Zero
    /\ Lt(Zero, min_z)

\* C5: when the z-range after the first pass is degenerate (max_z not greater
\* than min_z) every vertex has the colour color_from_height(0.5), and none is
\* black.
C5_DegenerateRangeMidColor ==
    (Generated /\ ~f64_gt(max_z, min_z)) =>
        \A i \in Indices, j \in Indices :
            /\ VertexAt(i, j).color = color_from_height(Rat(1, 2))
            /\ VertexAt(i, j).color = from_rgb(255, 255, 0)
            /\ VertexAt(i, j).color # BLACK

C5_Witness ==
    /\ pc = "generated"
    /\ expr_fn = "5"
    /\ min_z = Int2Rat(5)
    /\ max_z = Int2Rat(5)
    /\ surface.resolution > 1

\* the integer nearest to n / d, halves away from zero, for n >= 0 and d > 0
RoundDiv(n, d) ==
    (2 * n + d) \div (2 * d)

\* C6 as stated: color_from_height(h) is black outside [0, 1]; below 0.5, with
\* t = 2h, it is (round(255t), round(255t), round(255(1 - t))); from 0.5, with
\* t = 2(h - 0.5), it is (255, round(255(1 - t)), 0).
C6_RoundedGradient ==
    pc = "return" =>
        LET n == height.n
            d == height.d
        IN  color.val =
                IF n < 0 \/ n > d THEN BLACK
                ELSE IF 2 * n < d
                     THEN from_rgb(RoundDiv(510 * n, d), RoundDiv(510 * n, d),
                                   RoundDiv(255 * (d - 2 * n), d))
                     ELSE from_rgb(255, RoundDiv(255 * (2 * d - 2 * n), d), 0)

\* c is the integer part of n / d, for n >= 0 and d > 0
IsFloor(c, n, d) ==
    c * d <= n /\ n < (c + 1) * d

\* C6 as amended: color_from_height(h) is black outside [0, 1]; below 0.5, with
\* t = 2h, it is (floor(255t), floor(255t), floor(255(1 - t))); from 0.5, with
\* t = 2(h - 0.5), it is (255, floor(255(1 - t)), 0): the channels are truncated,
\* not rounded.  h = 0 gives (0, 0, 255) and h = 1 gives (255, 0, 0).
C6_TruncatedGradient ==
    pc = "return" =>
        LET n == height.n
            d == height.d
            c == color.val
        IN  /\ (n < 0 \/ n > d) => c = BLACK
            /\ (0 <= n /\ 2 * n < d) =>
                  /\ IsFloor(c.r, 510 * n, d)
                  /\ c.g = c.r
                  /\ IsFloor(c.b, 255 * (d - 2 * n), d)
            /\ (d <= 2 * n /\ n <= d) =>
                  /\ c.r = 255
                  /\ IsFloor(c.g, 255 * (2 * d - 2 * n), d)
                  /\ c.b = 0
            /\ n = 0 => c = from_rgb(0, 0, 255)
            /\ n = d => c = from_rgb(255, 0, 0)

C6_Witness ==
    /\ pc = "return"
    /\ height = Rat(1, 4)
    /\ color = Some(from_rgb(127, 127, 127))

\* rotation_matrix * position * zoom, as [rotated.x, rotated.z]
Projection(v) ==
    LET rotated == Scale(MatVec(rotation_matrix(rotation_x, rotation_y, rotation_z),
                                v.position), zoom)
    IN  <<rotated.x, rotated.z>>

\* C7: for a mesh of resolution R get_wireframe_lines returns 2(R + 1) lines of
\* R + 1 points: line i the projected vertices (i, 0..R) of row i, then line
\* R + 1 + j the projected vertices (0..R, j) of column j; project_points returns
\* (R + 1)^2 positions in row-major order and as many colours, entry
\* i * (R + 1) + j being the projection and the colour of vertex (i, j).
C7_ProjectionLayout ==
    pc = "projected" =>
        LET n == surface.resolution + 1
        IN  /\ Len(projected.lines) = 2 * n
            /\ \A l \in 1..(2 * n) : Len(projected.lines[l]) = n
            /\ Len(projected.positions) = n * n
            /\ Len(projected.colors) = n * n
            /\ \A i \in Indices, j \in Indices :
                  /\ projected.lines[i + 1][j + 1] = Projection(VertexAt(i, j))
                  /\ projected.lines[n + j + 1][i + 1] = Projection(VertexAt(i, j))
                  /\ projected.positions[i * n + j + 1] = Projection(VertexAt(i, j))
                  /\ projected.colors[i * n + j + 1] = VertexAt(i, j).color

C7_Witness ==
    /\ pc = "projected"
    /\ surface.resolution = 3
    /\ rotation_x = Int2Rat(90)
    /\ Len(projected.lines) = 8
    /\ projected.lines[5][2] # projected.lines[1][2]

\* rotation_y + 0.5 wrapped into [0, 360), for 0 <= rotation_y <= 360
NextAngle ==
    IF Lt(rotation_y, Rat(719, 2))
    THEN Add(rotation_y, Rat(1, 2))
    ELSE Sub(rotation_y, Rat(719, 2))

\* the value rotation_y was set to, taken modulo 360
OriginAngle ==
    IF y_origin = Int2Rat(360) THEN Zero ELSE y_origin

\* C8 as stated, its last part: with auto-rotate left on, rotation_y is back at
\* the value it started from (any slider value in [0, 360]) after 720 frames.
C8_ReturnsToStart ==
    y_steps = Period => rotation_y = y_origin

\* C8 as amended: a frame with auto_rotate on and no UI event takes rotation_y to
\* (rotation_y + 0.5) mod 360 and leaves rotation_x, rotation_z, zoom and the mesh;
\* after an auto-rotate step rotation_y is in [0, 360); 720 steps after it was
\* set to a multiple of 0.5 it is back at that value taken modulo 360 (at 0 when
\* it was set to 360), and not before.
C8_AutoRotatePeriod ==
    /\ [](y_steps > 0 => (Le(Zero, rotation_y) /\ Lt(rotation_y, Int2Rat(360))))
    /\ [](y_steps = Period => rotation_y = OriginAngle)
    /\ []((0 < y_steps /\ y_steps < Period) => rotation_y # OriginAngle)
    /\ [][(FrameIdle /\ auto_rotate) =>
            /\ rotation_y' = NextAngle
            /\ UNCHANGED <<rotation_x, rotation_z, zoom, surface>>]_vars

C8_Witness ==
    /\ pc = "app"
    /\ auto_rotate
    /\ y_origin = Int2Rat(360)
    /\ y_steps = Period
    /\ rotation_y = Zero

\* the height the second pass gives to color_from_height for vertex (i, j)
NormalizedZ(i, j) ==
    Div(Sub(VertexAt(i, j).position.z, min_z), Sub(max_z, min_z))

\* C9: after a rebuild with max_z > min_z the height (z - min_z) / (max_z - min_z)
\* of every vertex, those of failed samples included, is in [0, 1], and no vertex
\* is black.
C9_NoBlackVertex ==
    (pc = "app" /\ f64_gt(max_z, min_z)) =>
        \A i \in Indices, j \in Indices :
            /\ Le(Zero, NormalizedZ(i, j))
            /\ Le(NormalizedZ(i, j), One)
            /\ VertexAt(i, j).color # BLACK

\* C10: in every state of the application exactly one of expression_obj and
\* error_message is set, so the lazy compile of the central panel is never
\* taken; a frame changes either only by a compile, which leaves the expression
\* and no error when the text parses and the error and no expression when not.
C10_ExpressionXorError ==
    /\ [](pc = "app" => (expression_obj.some <=> ~error_message.some))
    /\ [][(expression_obj' # expression_obj \/ error_message' # error_message) =>
            IF parse(expression').ok
            THEN expression_obj' = Some(expression') /\ error_message' = None
            ELSE expression_obj' = None /\ error_message'.some]_vars

C10_Witness ==
    /\ pc = "app"
    /\ ~expression_obj.some
    /\ error_message = Some(<<"Error parsing expression: ", "x +* y">>)
    /\ expr_fn = "1/(x*x)"

=============================================================================
